---- MODULE Spec2Model ----
(***************************************************************************)
(* Live memory view of the Cosmos VS Code extension: the polling           *)
(* controller of ui/memoryWebview.ts in its two variants (QEMU monitor     *)
(* channel, shared-memory file) and the QMPClient it reads through.        *)
(*                                                                         *)
(* The extension host is single-threaded: every action below is one        *)
(* macrotask (a command, an event, a timer or a socket callback) together  *)
(* with the promise continuations it releases.  Timers are untimed: an     *)
(* armed timer may fire at any later step.                                 *)
(***************************************************************************)
EXTENDS Integers, Sequences, FiniteSets, TLC

\* ------------------------------------------------------------------ bounds
MaxTimers  == 2   \* interval timer handles that can be alive at once
MaxInv     == 2   \* requestMemoryData invocations suspended at once
MaxClients == 1   \* QMPClient objects alive at once
MaxSockets == 1   \* net.Socket objects alive at once
MaxId      == 3   \* commands one QMPClient sends
MaxGen     == 1   \* distinct buffer contents the guest publishes

\* ------------------------------------------------------- program constants
MAX_LIMINE_ENTRIES == 64
MAX_RAT_SAMPLE == 1000
\* 0x434F534D4F53 as the 8 bytes readBigUInt64LE reads (little-endian)
MAGIC_NUMBER == <<83, 79, 77, 83, 79, 67, 0, 0>>
bufferSize == 8 + 4 + 8 + 4 + (MAX_LIMINE_ENTRIES * 3 * 8) + 8 + 8 + 8 + 8 + 8 + 8 + 4 + MAX_RAT_SAMPLE
\* offset of the RAT sample: header, full-capacity map, scalars and count
ratSampleOffset == 8 + 4 + 8 + 4 + (MAX_LIMINE_ENTRIES * 3 * 8) + 8 + 8 + 8 + 8 + 8 + 8 + 4

VARIABLES
    variant,              \* "qmp": part_008:35-1039, "shm": part_008:1040-2089
    isLive, pollTimer, timers,
    memoryPanel, html, currentMemoryState,
    debugBufferAddress, shmemPath, qmpClient,
    clients, socks, inv,
    activeDebugSession, cosmosSession,
    event,
    call, ret,            \* a function under test: its arguments, its result
    dom, mailbox, shown   \* the page of the panel, followed in SpecPublish only

vars == <<variant, isLive, pollTimer, timers, memoryPanel, html,
          currentMemoryState, debugBufferAddress, shmemPath, qmpClient,
          clients, socks, inv, activeDebugSession, cosmosSession, event,
          call, ret, dom, mailbox, shown>>

Min(a, b) == IF a < b THEN a ELSE b
Least(S) == CHOOSE x \in S : \A y \in S : x <= y

\* ------------------------------------------------------------ input sets
SymbolLookups == {"found", "notfound", "nokernel"}
BadMagic == <<0, 0, 0, 0, 0, 0, 0, 0>>
Lengths == {0, bufferSize}
\* a published buffer: its byte length, its first 8 bytes, its RAT sample
\* count field and an identity of the rest of its content (an empty buffer
\* has no content to tell apart)
Buffers == {b \in [len : Lengths, magic : {MAGIC_NUMBER, BadMagic},
                   ratSampleCount : {MAX_RAT_SAMPLE}, gen : 1..MaxGen] :
               /\ b.len = 0 => b.magic = BadMagic
               /\ b.magic = BadMagic => b.gen = 1}
AnyBuffer == CHOOSE b \in Buffers : TRUE
\* what one run of requestMemoryData reads from its environment: the nm
\* lookup and getQmpSocketPath(), or getSharedMemoryPath(), fs.existsSync
\* and fs.readFileSync
Inputs(v) ==
    IF v = "qmp"
    THEN [symbol : SymbolLookups, path : BOOLEAN, exists : {TRUE}, buf : {AnyBuffer}]
    ELSE [symbol : {"found"}, path : BOOLEAN, exists : BOOLEAN, buf : Buffers]

\* ------------------------------------------------------- state as a record
NoEvent == [tick |-> "none", notified |-> FALSE, rx |-> <<0, 0>>,
            matched |-> FALSE, timeout |-> <<0, 0>>, sent |-> <<0, 0, "none">>]

NewClientRec == [used |-> FALSE, socket |-> 0, connected |-> FALSE,
                 pendingRequests |-> {}, nextId |-> 1,
                 written |-> {}, hs |-> "none", overtaken |-> {}]
NewSockRec == [status |-> "free", client |-> 0, onData |-> FALSE, caps |-> {},
               timedOut |-> FALSE]
IdleInv == [pc |-> "idle", sock |-> 0, cl |-> 0, id |-> 0]
\* currentMemoryState = null
NoState == [gen |-> 0, pages |-> 0]
\* no function is under test
NoCall == [fn |-> "none", pc |-> "none"]
NoRet == <<>>
\* the document of getLoadingWebviewContent: no grid, no cards, no script
LoadingDocument ==
    [grid |-> FALSE, cards |-> <<>>, rows |-> <<>>, info |-> <<>>,
     usage |-> <<>>, cells |-> <<>>]
\* what the display was last given: by the panel's creation ("created"), by
\* an assignment of the viewer page ("html") or by a message ("message"), the
\* snapshot it was given, the cells written and whether the grid was rebuilt
NoShown == [by |-> "none", prev |-> NoState, changed |-> {}, regenerated |-> FALSE]
\* no page is followed
NoPage == dom = LoadingDocument /\ mailbox = <<>> /\ shown = NoShown

State == [variant |-> variant, isLive |-> isLive, pollTimer |-> pollTimer,
          timers |-> timers, memoryPanel |-> memoryPanel, html |-> html,
          currentMemoryState |-> currentMemoryState,
          debugBufferAddress |-> debugBufferAddress, shmemPath |-> shmemPath,
          qmpClient |-> qmpClient, clients |-> clients, socks |-> socks,
          inv |-> inv, activeDebugSession |-> activeDebugSession,
          cosmosSession |-> cosmosSession, event |-> NoEvent, blocked |-> FALSE]

Block(s) == [s EXCEPT !.blocked = TRUE]

\* a requestMemoryData invocation returned: what it logged and whether it
\* called vscode.window.showErrorMessage
Done(s, outcome, notify) ==
    [s EXCEPT !.event.tick = outcome, !.event.notified = notify]

\* ------------------------------------------------- decoding (both variants)
\* readAndParseBufferQMP / readAndParseBufferFromFile up to the state update:
\* the Buffer reads throw a RangeError past the end of the buffer
Decode(buf) ==
    IF buf.len < 8 + 4 + 8 THEN [err |-> "RangeError"]
    ELSE IF buf.magic # MAGIC_NUMBER THEN [err |-> "BadMagic"]
    ELSE IF buf.len < ratSampleOffset THEN [err |-> "RangeError"]
    ELSE IF buf.len < ratSampleOffset + Min(buf.ratSampleCount, MAX_RAT_SAMPLE)
         THEN [err |-> "RangeError"]
    ELSE [err |-> "none",
          state |-> [gen |-> buf.gen,
                     pages |-> Min(buf.ratSampleCount, MAX_RAT_SAMPLE)]]

\* QMPClient.parseHexDump: the byte tokens of the reply, cut to expectedSize
parseHexDump(reply, expectedSize) ==
    [reply EXCEPT !.len = Min(reply.len, expectedSize)]

\* ---------------------------------------------------------------- webview
updateWebview(s) ==
    IF ~s.memoryPanel \/ s.currentMemoryState = NoState THEN s
    ELSE [s EXCEPT !.html = "viewer"]

\* -------------------------------------------------------------- QMPClient
isConnected(s, c) == s.clients[c].connected

disconnect(s, c) ==
    LET sk == s.clients[c].socket IN
    IF sk = 0 THEN s
    ELSE [s EXCEPT !.socks[sk].status = IF @ = "open" THEN "ended" ELSE @,
                   !.clients[c].socket = 0,
                   !.clients[c].connected = FALSE]

\* the slot of the invocation awaiting the connect() promise made on socket sk
Awaiting(s, sk) == {i \in 1..MaxInv : s.inv[i].pc = "connecting" /\ s.inv[i].sock = sk}
\* the slot of the invocation awaiting the read with this id on client c
Reading(s, c, id) ==
    {i \in 1..MaxInv : s.inv[i].pc = "reading" /\ s.inv[i].cl = c /\ s.inv[i].id = id}

\* mutation of Fail: a failed tick also cancels the poll timer
Fail_StopsPolling(s, i, outcome) ==
    [Done([s EXCEPT !.inv[i] = IdleInv], outcome, s.variant = "qmp")
        EXCEPT !.timers = IF s.pollTimer # 0 THEN @ \ {s.pollTimer} ELSE @,
               !.pollTimer = 0,
               !.isLive = FALSE]

\* mutation of Fail: a failed tick also forgets the snapshot and puts the
\* placeholder back
Fail_ClearsView(s, i, outcome) ==
    [Done([s EXCEPT !.inv[i] = IdleInv], outcome, s.variant = "qmp")
        EXCEPT !.currentMemoryState = NoState,
               !.html = IF s.memoryPanel THEN "loading" ELSE @]

\* the catch block of requestMemoryData for the invocation in slot i
Fail(s, i, outcome) ==
    Done([s EXCEPT !.inv[i] = IdleInv], outcome, s.variant = "qmp")

\* QMPClient.sendCommand on client c for the caller `who` ("caps" or a slot);
\* the caller has checked that the socket is set
sendCommand(s, c, cmd) ==
    LET id == s.clients[c].nextId IN
    [s EXCEPT !.clients[c].nextId = id + 1,
              !.clients[c].pendingRequests = @ \cup {id},
              !.clients[c].written = @ \cup {id},
              !.event.sent = <<c, id, cmd>>]

\* readAndParseBufferQMP up to the await of qmp.readMemory, for slot i
readStart(s, i) ==
    LET c == s.qmpClient IN
    IF s.clients[c].socket = 0 THEN Fail(s, i, "NotConnected")
    ELSE IF s.clients[c].nextId > MaxId THEN Block(s)
    ELSE [sendCommand(s, c, "human-monitor-command")
            EXCEPT !.inv[i] = [pc |-> "reading", sock |-> 0, cl |-> c,
                               id |-> s.clients[c].nextId]]

\* requestMemoryData after `await ensureQmpConnection()` for slot i
afterConnect(s, i) ==
    IF s.qmpClient = 0 \/ ~isConnected(s, s.qmpClient) THEN Fail(s, i, "NotConnected")
    ELSE IF s.debugBufferAddress = 0 THEN Fail(s, i, "TypeError")
    ELSE readStart(s, i)

\* readAndParseBufferQMP after the read resolved with a reply, for slot i
\* (history: the reads of the same client that were issued before this one
\* and are still awaited have been overtaken by this publication)
finishRead(s, i, reply) ==
    LET d == Decode(parseHexDump(reply, bufferSize))
        c == s.inv[i].cl
        earlier == {s.inv[j].id : j \in {k \in 1..MaxInv :
                        /\ s.inv[k].pc = "reading"
                        /\ s.inv[k].cl = c
                        /\ s.inv[k].id < s.inv[i].id}}
    IN  IF d.err # "none" THEN Fail(s, i, d.err)
        ELSE Done(updateWebview([s EXCEPT !.currentMemoryState = d.state,
                                          !.clients[c].overtaken = @ \cup earlier,
                                          !.inv[i] = IdleInv]), "Ok", FALSE)

resolveAttempt(s, sk) ==
    IF Awaiting(s, sk) = {} THEN s ELSE afterConnect(s, Least(Awaiting(s, sk)))

rejectAttempt(s, sk, outcome) ==
    IF Awaiting(s, sk) = {} THEN s ELSE Fail(s, Least(Awaiting(s, sk)), outcome)

\* mutation of settle: a response settles the request and leaves its entry
\* in the request table
settle_KeepsEntry(s, c, id, kind, reply) ==
    LET s1 == IF kind = "CommandTimeout"
              THEN [s EXCEPT !.clients[c].pendingRequests = @ \ {id},
                             !.clients[c].overtaken = @ \ {id}]
              ELSE s
        capsOf == {sk \in DOMAIN s.socks :
                      s.socks[sk].client = c /\ id \in s.socks[sk].caps}
    IN  IF capsOf # {} THEN
            LET sk == Least(capsOf) IN
            IF kind = "return"
            THEN resolveAttempt([s1 EXCEPT !.clients[c].connected = TRUE,
                                           !.clients[c].hs = IF @ = "sent" THEN "acked" ELSE @], sk)
            ELSE rejectAttempt(s1, sk, kind)
        ELSE IF Reading(s, c, id) # {} THEN
            LET i == Least(Reading(s, c, id)) IN
            IF kind = "return" THEN finishRead(s1, i, reply) ELSE Fail(s1, i, kind)
        ELSE s1

\* a pending request of client c is settled: kind "return" resolves it,
\* anything else rejects it with that error
settle(s, c, id, kind, reply) ==
    LET s1 == [s EXCEPT !.clients[c].pendingRequests = @ \ {id},
                        !.clients[c].overtaken = @ \ {id}]
        capsOf == {sk \in DOMAIN s.socks :
                      s.socks[sk].client = c /\ id \in s.socks[sk].caps}
    IN  IF capsOf # {} THEN
            LET sk == Least(capsOf) IN
            IF kind = "return"
            THEN resolveAttempt([s1 EXCEPT !.clients[c].connected = TRUE,
                                           !.clients[c].hs = IF @ = "sent" THEN "acked" ELSE @], sk)
            ELSE rejectAttempt(s1, sk, kind)
        ELSE IF Reading(s, c, id) # {} THEN
            LET i == Least(Reading(s, c, id)) IN
            IF kind = "return" THEN finishRead(s1, i, reply) ELSE Fail(s1, i, kind)
        ELSE s1

\* mutation of processResponses: a response is handed to the oldest pending
\* request when no pending request carries its id
processResponses_AnyPending(s, c, id, kind, reply) ==
    LET s0 == [s EXCEPT !.event.rx = <<c, id>>,
                        !.event.matched = (id \in s.clients[c].pendingRequests)]
        k  == IF kind = "return" THEN "return" ELSE "CommandError"
    IN  IF id \in s.clients[c].pendingRequests THEN settle(s0, c, id, k, reply)
        ELSE IF s.clients[c].pendingRequests # {}
        THEN settle(s0, c, Least(s.clients[c].pendingRequests), k, reply)
        ELSE s0

\* QMPClient.processResponses for one response line carrying this id
processResponses(s, c, id, kind, reply) ==
    LET s0 == [s EXCEPT !.event.rx = <<c, id>>,
                        !.event.matched = (id \in s.clients[c].pendingRequests)]
    IN  IF id \in s.clients[c].pendingRequests
        THEN settle(s0, c, id, IF kind = "return" THEN "return" ELSE "CommandError", reply)
        ELSE s0

\* mutation of onData: the client counts as connected as soon as the
\* greeting is seen, before qmp_capabilities is acknowledged
onData_ConnectedOnGreeting(s, sk) ==
    LET c  == s.socks[sk].client
        s1 == [s EXCEPT !.socks[sk].onData = IF s.clients[c].socket = sk THEN FALSE ELSE @,
                        !.clients[c].hs = IF @ = "none" THEN "greeted" ELSE @]
    IN  IF s.clients[c].socket = 0 THEN rejectAttempt(s1, sk, "NotConnected")
        ELSE IF s.clients[c].nextId > MaxId THEN Block(s)
        ELSE [sendCommand(s1, c, "qmp_capabilities")
                EXCEPT !.socks[sk].caps = @ \cup {s.clients[c].nextId},
                       !.clients[c].hs = IF @ = "greeted" THEN "sent" ELSE @,
                       !.clients[c].connected = TRUE]

\* the onData listener that connect() registered on socket sk sees a greeting
onData(s, sk) ==
    LET c  == s.socks[sk].client
        s1 == [s EXCEPT !.socks[sk].onData = IF s.clients[c].socket = sk THEN FALSE ELSE @,
                        !.clients[c].hs = IF @ = "none" THEN "greeted" ELSE @]
    IN  IF s.clients[c].socket = 0 THEN rejectAttempt(s1, sk, "NotConnected")
        ELSE IF s.clients[c].nextId > MaxId THEN Block(s)
        ELSE [sendCommand(s1, c, "qmp_capabilities")
                EXCEPT !.socks[sk].caps = @ \cup {s.clients[c].nextId},
                       !.clients[c].hs = IF @ = "greeted" THEN "sent" ELSE @]

\* mutation of onCommandTimeout: the timeout also tears the connection down
onCommandTimeout_Teardown(s, c, id) ==
    disconnect(settle([s EXCEPT !.event.timeout = <<c, id>>],
                      c, id, "CommandTimeout", AnyBuffer), c)

\* the 10 s timer that sendCommand armed for this id fires while it is pending
onCommandTimeout(s, c, id) ==
    settle([s EXCEPT !.event.timeout = <<c, id>>], c, id, "CommandTimeout", AnyBuffer)

\* the 5 s timer that connect() armed fires while its promise is pending
onConnectTimeout(s, sk) ==
    rejectAttempt([s EXCEPT !.socks[sk].timedOut = TRUE], sk, "ConnectTimeout")

\* QMPClient.connect on client c, awaited by slot i
connect(s, c, i) ==
    LET free == {sk \in DOMAIN s.socks : s.socks[sk].status = "free"} IN
    IF free = {} THEN Block(s)
    ELSE LET sk == Least(free) IN
         [s EXCEPT !.socks[sk] = [status |-> "open", client |-> c,
                                  onData |-> TRUE, caps |-> {},
                                  timedOut |-> FALSE],
                   !.clients[c].socket = sk,
                   !.inv[i] = [pc |-> "connecting", sock |-> sk, cl |-> 0, id |-> 0]]

\* ------------------------------------------------- garbage collection
\* objects nothing refers to any more are returned to the free lists, so that
\* `new QMPClient` and net.createConnection always get a fresh object
DeadClient(s, c) ==
    /\ s.clients[c].used
    /\ c # s.qmpClient
    /\ s.clients[c].pendingRequests = {}
    /\ \A i \in 1..MaxInv : s.inv[i].cl # c
    /\ \A sk \in DOMAIN s.socks :
          s.socks[sk].client = c =>
              s.socks[sk].status = "closed" /\ Awaiting(s, sk) = {}

DeadSock(s, sk) ==
    /\ s.socks[sk].status = "closed"
    /\ Awaiting(s, sk) = {}
    /\ \/ DeadClient(s, s.socks[sk].client)
       \/ /\ s.clients[s.socks[sk].client].socket # sk
          /\ s.socks[sk].caps \cap s.clients[s.socks[sk].client].pendingRequests = {}

Gc(s) ==
    [s EXCEPT
       !.clients = [c \in DOMAIN s.clients |->
                       IF DeadClient(s, c) THEN NewClientRec ELSE s.clients[c]],
       !.socks = [sk \in DOMAIN s.socks |->
                     IF s.socks[sk].status = "free" \/ DeadSock(s, sk) THEN NewSockRec
                     ELSE [s.socks[sk] EXCEPT
                             !.caps = @ \cap s.clients[s.socks[sk].client].pendingRequests,
                             !.onData = IF s.socks[sk].status = "closed" THEN FALSE ELSE @]]]

\* ------------------------------------------------------------- controller
stopPolling(s) ==
    [s EXCEPT !.timers = IF s.pollTimer # 0 THEN @ \ {s.pollTimer} ELSE @,
              !.pollTimer = 0,
              !.isLive = FALSE]

\* ensureQmpConnection up to its first await, for a new invocation
ensureQmpConnection(s, in) ==
    LET g == Gc([s EXCEPT !.qmpClient = 0])
        freeC == {c \in DOMAIN g.clients : ~g.clients[c].used}
        freeI == {i \in 1..MaxInv : s.inv[i].pc = "idle"}
    IN  IF freeI = {} THEN Block(s)
        ELSE IF s.qmpClient # 0 /\ isConnected(s, s.qmpClient)
             THEN afterConnect([s EXCEPT !.inv[Least(freeI)].pc = "starting"], Least(freeI))
        ELSE IF ~in.path THEN Done(s, "NoSocketPath", TRUE)
        ELSE IF freeC = {} THEN Block(s)
        ELSE [g EXCEPT !.qmpClient = Least(freeC),
                       !.clients[Least(freeC)] = [NewClientRec EXCEPT !.used = TRUE],
                       !.inv[Least(freeI)] = [IdleInv EXCEPT !.pc = "wait500"]]

\* getDebugBufferAddress: nm over the kernel ELF for the candidate symbols
getDebugBufferAddress(s, in) ==
    IF in.symbol = "found" THEN [s EXCEPT !.debugBufferAddress = 1] ELSE s

requestMemoryData_qmp(s, in) ==
    IF ~s.activeDebugSession
    THEN Done(IF s.isLive THEN stopPolling(s) ELSE s, "NoSession", FALSE)
    ELSE IF s.debugBufferAddress = 0 /\ in.symbol = "nokernel"
    THEN Done(s, "NoKernelPath", TRUE)
    ELSE LET s1 == IF s.debugBufferAddress = 0 THEN getDebugBufferAddress(s, in) ELSE s IN
         IF s1.debugBufferAddress = 0 THEN Done(s1, "ResolutionError", TRUE)
         ELSE ensureQmpConnection(s1, in)

requestMemoryData_shm(s, in) ==
    IF ~s.shmemPath /\ ~in.path THEN Done(s, "NotReady", FALSE)
    ELSE LET s1 == [s EXCEPT !.shmemPath = TRUE]
             d  == Decode(in.buf)
         IN  IF ~in.exists THEN Done(s1, "NotReady", FALSE)
             ELSE IF d.err # "none" THEN Done(s1, d.err, FALSE)
             ELSE Done(updateWebview([s1 EXCEPT !.currentMemoryState = d.state]),
                       "Ok", FALSE)

requestMemoryData(s, in) ==
    IF s.variant = "qmp" THEN requestMemoryData_qmp(s, in)
    ELSE requestMemoryData_shm(s, in)

\* mutation of startPolling: the existing timer is not cleared
startPolling_NoClear(s, in) ==
    LET s2 == requestMemoryData([s EXCEPT !.isLive = TRUE], in)
        free == (1..MaxTimers) \ (s2.timers \cup {s.pollTimer})
    IN  IF free = {} THEN Block(s2)
        ELSE [s2 EXCEPT !.pollTimer = Least(free), !.timers = @ \cup {Least(free)}]

startPolling(s, in) ==
    LET s1 == IF s.pollTimer # 0 THEN [s EXCEPT !.timers = @ \ {s.pollTimer}] ELSE s
        s2 == requestMemoryData([s1 EXCEPT !.isLive = TRUE], in)
        free == (1..MaxTimers) \ (s2.timers \cup {s.pollTimer})
    IN  IF free = {} THEN Block(s2)
        ELSE [s2 EXCEPT !.pollTimer = Least(free), !.timers = @ \cup {Least(free)}]

showMemoryRegions(s, in) ==
    IF s.variant = "shm" /\ ~in.path THEN s
    ELSE IF s.memoryPanel
         THEN IF s.pollTimer = 0 THEN startPolling(s, in) ELSE s
    ELSE startPolling([s EXCEPT !.memoryPanel = TRUE,
                                !.html = IF s.currentMemoryState # NoState
                                         THEN "viewer" ELSE "loading"], in)

\* the onDidDispose callback registered by showMemoryRegions
onDidDispose(s) ==
    [stopPolling(s) EXCEPT !.memoryPanel = FALSE, !.html = "none"]

closeMemoryPanel(s) ==
    LET s1 == stopPolling(s)
        s2 == IF s1.memoryPanel THEN onDidDispose(s1) ELSE s1
        s3 == IF s2.variant = "qmp" /\ s2.qmpClient # 0
              THEN [disconnect(s2, s2.qmpClient) EXCEPT !.qmpClient = 0] ELSE s2
    IN  IF s.variant = "qmp"
        THEN [s3 EXCEPT !.currentMemoryState = NoState, !.debugBufferAddress = 0]
        ELSE [s3 EXCEPT !.currentMemoryState = NoState, !.shmemPath = FALSE]

onDebugSessionEnded(s) ==
    LET s1 == stopPolling(s)
        s2 == IF s1.variant = "qmp" /\ s1.qmpClient # 0
              THEN [disconnect(s1, s1.qmpClient) EXCEPT !.qmpClient = 0] ELSE s1
    IN  IF s.variant = "qmp"
        THEN [s2 EXCEPT !.debugBufferAddress = 0]
        ELSE [s2 EXCEPT !.shmemPath = FALSE]

onDebugSessionStarted(s, in) ==
    IF s.memoryPanel /\ ~s.isLive THEN startPolling(s, in) ELSE s

Commit(r) ==
    LET s == Gc(r) IN
    /\ ~r.blocked
    /\ isLive' = s.isLive
    /\ pollTimer' = s.pollTimer
    /\ timers' = s.timers
    /\ memoryPanel' = s.memoryPanel
    /\ html' = s.html
    /\ currentMemoryState' = s.currentMemoryState
    /\ debugBufferAddress' = s.debugBufferAddress
    /\ shmemPath' = s.shmemPath
    /\ qmpClient' = s.qmpClient
    /\ clients' = s.clients
    /\ socks' = s.socks
    /\ inv' = s.inv
    /\ activeDebugSession' = s.activeDebugSession
    /\ cosmosSession' = s.cosmosSession
    /\ event' = s.event
    /\ UNCHANGED <<variant, call, ret, dom, mailbox, shown>>

\* ---------------------------------------------------------------- actions
\* the module state of ui/memoryWebview.ts right after activation
ControllerInit ==
    /\ variant \in {"qmp", "shm"}
    /\ isLive = FALSE
    /\ pollTimer = 0
    /\ timers = {}
    /\ memoryPanel = FALSE
    /\ html = "none"
    /\ currentMemoryState = NoState
    /\ debugBufferAddress = 0
    /\ shmemPath = FALSE
    /\ qmpClient = 0
    /\ clients = [c \in 1..MaxClients |-> NewClientRec]
    /\ socks = [sk \in 1..MaxSockets |-> NewSockRec]
    /\ inv = [i \in 1..MaxInv |-> IdleInv]
    /\ activeDebugSession = FALSE
    /\ cosmosSession = FALSE
    /\ event = NoEvent

Init ==
    /\ ControllerInit
    /\ call = NoCall
    /\ ret = NoRet
    /\ NoPage

\* the cosmos.memoryRegions command
ShowMemoryRegions ==
    \E in \in Inputs(variant) : Commit(showMemoryRegions(State, in))

\* the user closes the panel
PanelDisposed ==
    /\ memoryPanel
    /\ Commit(onDidDispose(State))

CloseMemoryPanel ==
    /\ memoryPanel \in BOOLEAN
    /\ Commit(closeMemoryPanel(State))

\* vscode.debug.activeDebugSession becomes a cppdbg session, or stops being one
ActiveSessionChanged ==
    \E b \in BOOLEAN :
        /\ b # activeDebugSession
        /\ Commit([State EXCEPT !.activeDebugSession = b])

\* vscode.debug.onDidStartDebugSession for a cppdbg session named 'Debug ...'
OnDidStartDebugSession ==
    /\ ~cosmosSession
    /\ \E in \in Inputs(variant) :
          Commit(onDebugSessionStarted([State EXCEPT !.cosmosSession = TRUE], in))

\* vscode.debug.onDidTerminateDebugSession for that session
OnDidTerminateDebugSession ==
    /\ cosmosSession
    /\ Commit(onDebugSessionEnded([State EXCEPT !.cosmosSession = FALSE]))

\* the setInterval callback of startPolling
PollTick ==
    \E t \in timers : \E in \in Inputs(variant) : Commit(requestMemoryData(State, in))

\* the 500 ms wait of ensureQmpConnection is over: `await qmpClient.connect()`
Wait500Done ==
    \E i \in 1..MaxInv :
        /\ inv[i].pc = "wait500"
        /\ Commit(IF qmpClient = 0 THEN Fail(State, i, "TypeError")
                  ELSE connect(State, qmpClient, i))

\* the 5 s timer of connect() rejects the connect promise
ConnectTimeout ==
    \E sk \in DOMAIN socks :
        /\ Awaiting(State, sk) # {}
        /\ Commit(onConnectTimeout(State, sk))

\* the 10 s timer that sendCommand armed for command id of client c
TimerOf(c, id) ==
    /\ id \in clients[c].pendingRequests
    /\ Commit(onCommandTimeout(State, c, id))

\* the 10 s timer of sendCommand
CommandTimeout ==
    \E c \in DOMAIN clients : \E id \in 1..MaxId : TimerOf(c, id)

\* a 'data' event carrying the QMP greeting
SocketGreeting ==
    \E sk \in DOMAIN socks :
        /\ socks[sk].status \in {"open", "ended"}
        /\ socks[sk].onData
        /\ Commit(onData(State, sk))

\* a 'data' event carrying one response line
SocketResponse ==
    \E sk \in DOMAIN socks : \E id \in 1..MaxId :
    \E kind \in {"return", "error"} :
    \E reply \in IF kind = "return" THEN Buffers ELSE {AnyBuffer} :
        /\ socks[sk].status \in {"open", "ended"}
        /\ Commit(processResponses(State, socks[sk].client, id, kind, reply))

\* an 'error' event, followed by 'close'
SocketError ==
    \E sk \in DOMAIN socks :
        /\ socks[sk].status \in {"open", "ended"}
        /\ Commit([rejectAttempt(State, sk, "SocketError")
                     EXCEPT !.socks[sk].status = "closed",
                            !.clients[socks[sk].client].connected = FALSE])

\* a 'close' event: the peer closed the socket
SocketClose ==
    \E sk \in DOMAIN socks :
        /\ socks[sk].status \in {"open", "ended"}
        /\ Commit([State EXCEPT !.socks[sk].status = "closed",
                                !.clients[socks[sk].client].connected = FALSE])

Next ==
    \/ ShowMemoryRegions
    \/ PanelDisposed
    \/ CloseMemoryPanel
    \/ ActiveSessionChanged
    \/ OnDidStartDebugSession
    \/ OnDidTerminateDebugSession
    \/ PollTick
    \/ Wait500Done
    \/ ConnectTimeout
    \/ CommandTimeout
    \/ SocketGreeting
    \/ SocketResponse
    \/ SocketError
    \/ SocketClose

Spec == Init /\ [][Next]_vars

\* ------------------------------------------------ commands and their timers
\* one monitor connection from its first use to disconnect(), in an event loop
\* that runs every timer that was armed: the callbacks that sendCommand hands
\* to setTimeout are never cancelled and always fire
InitTimers == Init /\ variant = "qmp"

NextTimers ==
    \/ ShowMemoryRegions
    \/ CloseMemoryPanel
    \/ ActiveSessionChanged
    \/ Wait500Done
    \/ CommandTimeout
    \/ SocketGreeting
    \/ SocketResponse

SpecTimers ==
    /\ InitTimers
    /\ [][NextTimers]_vars
    /\ \A c \in 1..MaxClients : \A id \in 1..MaxId : WF_vars(TimerOf(c, id))

\* ------------------------------------------- connections of one debug session
\* the controller while it connects during one debug session, with room for
\* QMPClient and socket objects that the module variable qmpClient no longer
\* refers to
MaxLeaked == 1   \* clients and sockets alive beside the controller's own

\* the module state once a cppdbg session named 'Debug ...' has started and the
\* panel has not been opened yet: onDebugSessionStarted found no panel
InitConnect ==
    /\ variant = "qmp"
    /\ isLive = FALSE
    /\ pollTimer = 0
    /\ timers = {}
    /\ memoryPanel = FALSE
    /\ html = "none"
    /\ currentMemoryState = NoState
    /\ debugBufferAddress = 0
    /\ shmemPath = FALSE
    /\ qmpClient = 0
    /\ clients = [c \in 1..(MaxClients + MaxLeaked) |-> NewClientRec]
    /\ socks = [sk \in 1..(MaxSockets + MaxLeaked) |-> NewSockRec]
    /\ inv = [i \in 1..MaxInv |-> IdleInv]
    /\ activeDebugSession = TRUE
    /\ cosmosSession = TRUE
    /\ event = NoEvent
    /\ call = NoCall
    /\ ret = NoRet
    /\ NoPage

\* connections are followed until a client would send its first read: the
\* commands a client has written are those of its handshake
MaxHandshake == 1   \* commands one followed client sends: qmp_capabilities
HandshakeOnly == \A c \in DOMAIN clients : clients[c].nextId <= MaxHandshake + 1

NextConnect ==
    \/ ShowMemoryRegions /\ HandshakeOnly'
    \/ OnDidTerminateDebugSession /\ HandshakeOnly'
    \/ PollTick /\ HandshakeOnly'
    \/ Wait500Done /\ HandshakeOnly'
    \/ SocketGreeting /\ HandshakeOnly'
    \/ SocketResponse /\ HandshakeOnly'
    \/ SocketClose /\ HandshakeOnly'

SpecConnect == InitConnect /\ [][NextConnect]_vars

\* ============================================= QMPClient.readMemory on text
\* the monitor reply as the characters the regular expression scans
LowerHex == <<"0", "1", "2", "3", "4", "5", "6", "7", "8", "9",
              "a", "b", "c", "d", "e", "f">>
UpperHex == <<"0", "1", "2", "3", "4", "5", "6", "7", "8", "9",
              "A", "B", "C", "D", "E", "F">>
\* [0-9a-fA-F]
IsHexDigit(ch) == \E v \in 1..16 : ch = LowerHex[v] \/ ch = UpperHex[v]
HexDigitValue(ch) == (CHOOSE v \in 1..16 : ch = LowerHex[v] \/ ch = UpperHex[v]) - 1
\* parseInt(match[1], 16) for the two digits of a match
parseInt16(hi, lo) == 16 * HexDigitValue(hi) + HexDigitValue(lo)

\* the loop `while ((match = hexPattern.exec(output)) !== null)` from index i:
\* /0x([0-9a-fA-F]{2})/g matches wherever "0x" is followed by two hex digits
\* and resumes the search right after the match
RECURSIVE hexPattern(_, _)
hexPattern(output, i) ==
    IF i + 3 > Len(output) THEN <<>>
    ELSE IF /\ output[i] = "0"
            /\ output[i + 1] = "x"
            /\ IsHexDigit(output[i + 2])
            /\ IsHexDigit(output[i + 3])
         THEN <<parseInt16(output[i + 2], output[i + 3])>> \o hexPattern(output, i + 4)
         ELSE hexPattern(output, i + 1)

\* QMPClient.parseHexDump on the reply text: Buffer.from(bytes.slice(0, expectedSize))
parseHexDumpText(output, expectedSize) ==
    LET bytes == hexPattern(output, 1) IN
    SubSeq(bytes, 1, Min(Len(bytes), expectedSize))

\* QMPClient.readMemory once sendCommand resolved with `result`
readMemory(result, size) == parseHexDumpText(result, size)

\* ------------------------------------------------ replies the monitor sends
MaxTokens == 4   \* byte tokens in one reply
MaxSize   == 5   \* largest size asked of readMemory

\* an address label: none, the form the source comment gives, a bare address
Labels == {<<>>,
           <<"0", "x", "1", "0", "0", "0", ":", " ">>,
           <<"1", "0", "0", "0", ":", " ">>}
\* a byte token with the byte it stands for
ByteTokens == {[text |-> <<"0", "x", "D", "E">>, value |-> 222],
               [text |-> <<"0", "x", "A", "D">>, value |-> 173],
               [text |-> <<"0", "x", "b", "e">>, value |-> 190],
               [text |-> <<"0", "x", "E", "F">>, value |-> 239]}
TokenLists == UNION {[1..n -> ByteTokens] : n \in 0..MaxTokens}

\* the reply text: the label, then the tokens separated by one space
RECURSIVE JoinTokens(_, _)
JoinTokens(toks, k) ==
    IF k > Len(toks) THEN <<>>
    ELSE (IF k > 1 THEN <<" ">> ELSE <<>>) \o toks[k].text \o JoinTokens(toks, k + 1)
ReplyText(label, toks) == label \o JoinTokens(toks, 1)

InitHex ==
    /\ ControllerInit
    /\ variant = "qmp"
    /\ \E label \in Labels : \E toks \in TokenLists : \E size \in 0..MaxSize :
          call = [fn |-> "readMemory", pc |-> "called", label |-> label,
                  toks |-> toks, size |-> size]
    /\ ret = NoRet
    /\ NoPage

\* readMemory returns for the reply under test
ReadMemoryReturns ==
    /\ call.fn = "readMemory"
    /\ call.pc = "called"
    /\ ret' = readMemory(ReplyText(call.label, call.toks), call.size)
    /\ call' = [call EXCEPT !.pc = "returned"]
    /\ UNCHANGED <<variant, isLive, pollTimer, timers, memoryPanel, html,
                   currentMemoryState, debugBufferAddress, shmemPath, qmpClient,
                   clients, socks, inv, activeDebugSession, cosmosSession, event,
                   dom, mailbox, shown>>

NextHex == ReadMemoryReturns

SpecHex == InitHex /\ [][NextHex]_vars

\* ===================================================== decoding, byte by byte
\* A Buffer is the sequence of its bytes; the byte at offset o is buffer[o + 1].
\* A BigInt, and a Number holding a non-negative integer, is the sequence of
\* the base-256 digits of its value, least significant first, at least 8 long.

\* the 8-digit form of a small value
FromInt(k) ==
    [i \in 1..8 |-> CASE i = 1 -> k % 256
                      [] i = 2 -> (k \div 256) % 256
                      [] i = 3 -> (k \div 65536) % 256
                      [] i = 4 -> (k \div 16777216) % 256
                      [] OTHER -> 0]

\* Buffer.readBigUInt64LE, readUInt32LE and readUInt8 throw a RangeError when
\* the read does not fit in the buffer
InRange(buffer, offset, width) == offset + width <= Len(buffer)
readBigUInt64LE(buffer, offset) == SubSeq(buffer, offset + 1, offset + 8)
readUInt32LE(buffer, offset) ==
    buffer[offset + 1] + 256 * buffer[offset + 2] + 65536 * buffer[offset + 3]
        + 16777216 * buffer[offset + 4]
readUInt8(buffer, offset) == buffer[offset + 1]

\* BigInt + BigInt(k) for a small k >= 0 (no wrap: a BigInt grows)
RECURSIVE BigIntAdd(_, _)
BigIntAdd(a, k) ==
    IF a = <<>> THEN (IF k = 0 THEN <<>> ELSE <<k % 256>> \o BigIntAdd(<<>>, k \div 256))
    ELSE <<(a[1] + k) % 256>> \o BigIntAdd(Tail(a), (a[1] + k) \div 256)

\* a < b for two BigInts of the same length
RECURSIVE BigIntLess(_, _, _)
BigIntLess(a, b, i) ==
    IF i = 0 THEN FALSE
    ELSE IF a[i] # b[i] THEN a[i] < b[i]
    ELSE BigIntLess(a, b, i - 1)

\* a - b for a >= b of the same length, digit by digit with a borrow
RECURSIVE BigIntSub(_, _, _)
BigIntSub(a, b, borrow) ==
    IF a = <<>> THEN <<>>
    ELSE LET d == a[1] - b[1] - borrow IN
         <<(d + 256) % 256>> \o BigIntSub(Tail(a), Tail(b), IF d < 0 THEN 1 ELSE 0)

Pow2(n) == CASE n = 0 -> 1 [] n = 1 -> 2 [] n = 2 -> 4 [] n = 3 -> 8 [] n = 4 -> 16
             [] n = 5 -> 32 [] n = 6 -> 64 [] n = 7 -> 128 [] n = 8 -> 256
             [] n = 9 -> 512 [] n = 10 -> 1024 [] n = 11 -> 2048
\* the number of significant bits of a BigInt
BitLength(a) ==
    LET nz  == {i \in 1..Len(a) : a[i] # 0}
        top == CHOOSE i \in nz : \A j \in nz : j <= i
    IN  IF nz = {} THEN 0
        ELSE 8 * (top - 1) + (CHOOSE n \in 1..8 : Pow2(n - 1) <= a[top] /\ a[top] < Pow2(n))

\* Number(bigint) for a >= 0: a double keeps 53 significant bits and rounds
\* the rest to nearest, ties to even
Number(a) ==
    LET e == BitLength(a) IN
    IF e <= 53 THEN a
    ELSE LET P    == Pow2(e - 53)
             w    == a[1] + 256 * a[2]
             low  == w % P
             odd  == (w \div P) % 2 = 1
             up   == low > P \div 2 \/ (low = P \div 2 /\ odd)
             w2   == w - low + (IF up THEN P ELSE 0)
         IN  <<w2 % 256, (w2 \div 256) % 256>>
                 \o BigIntAdd(SubSeq(a, 3, Len(a)), w2 \div 65536)

\* Number(a - b) for two BigInts: the difference may be negative
NumberOfDifference(a, b) ==
    IF BigIntLess(a, b, Len(a))
    THEN [negative |-> TRUE, magnitude |-> Number(BigIntSub(b, a, 0))]
    ELSE [negative |-> FALSE, magnitude |-> Number(BigIntSub(a, b, 0))]

\* '0x' + bigint.toString(16).toUpperCase(): the digits, most significant
\* first, without leading zeros
RECURSIVE hexDigits(_, _)
hexDigits(a, i) ==
    IF i = 0 THEN <<>>
    ELSE <<UpperHex[(a[i] \div 16) + 1], UpperHex[(a[i] % 16) + 1]>> \o hexDigits(a, i - 1)
RECURSIVE stripZeros(_)
stripZeros(digits) ==
    IF Len(digits) > 1 /\ digits[1] = "0" THEN stripZeros(Tail(digits)) ELSE digits
toHexString(a) == <<"0", "x">> \o stripZeros(hexDigits(a, Len(a)))

getPageTypeName(type) ==
    CASE type = 0 -> "Empty"
      [] type = 3 -> "HeapSmall"
      [] type = 5 -> "HeapMedium"
      [] type = 7 -> "HeapLarge"
      [] type = 9 -> "Unmanaged"
      [] type = 11 -> "PageDirectory"
      [] type = 32 -> "RAT"
      [] type = 64 -> "SMT"
      [] type = 128 -> "Extension"
      [] OTHER -> "Unknown"

getLimineTypeName(type) ==
    CASE type = FromInt(0) -> "Usable"
      [] type = FromInt(1) -> "Reserved"
      [] type = FromInt(2) -> "ACPI Reclaimable"
      [] type = FromInt(3) -> "ACPI NVS"
      [] type = FromInt(4) -> "Bad Memory"
      [] type = FromInt(5) -> "Bootloader Reclaimable"
      [] type = FromInt(6) -> "Kernel and Modules"
      [] type = FromInt(7) -> "Framebuffer"
      [] OTHER -> "Unknown"

\* mutation of magicMismatch: the magic is not compared
magicMismatch_Never(magic) == FALSE

\* `magic !== MAGIC_NUMBER`
magicMismatch(magic) == magic # MAGIC_NUMBER
\* the bound of `for (i = 0; i < limineEntryCount && i < MAX_LIMINE_ENTRIES; i++)`
limineLoopBound(limineEntryCount) == Min(limineEntryCount, MAX_LIMINE_ENTRIES)
\* mutation of ratLoopBound: the loop runs to ratSampleCount, unclamped
ratLoopBound_NoClamp(ratSampleCount) == ratSampleCount

\* the bound of `for (i = 0; i < ratSampleCount && i < MAX_RAT_SAMPLE; i++)`
ratLoopBound(ratSampleCount) == Min(ratSampleCount, MAX_RAT_SAMPLE)
\* `offset = 8 + 4 + 8 + 4 + (MAX_LIMINE_ENTRIES * 3 * 8)` after the map loop
allocatorOffset == 8 + 4 + 8 + 4 + (MAX_LIMINE_ENTRIES * 3 * 8)

\* one iteration of the memory-map loop: the entry at slot i (from 0)
limineEntry(buffer, i) ==
    LET offset == 24 + 24 * i
        type   == Number(readBigUInt64LE(buffer, offset + 16))
    IN  [base     |-> toHexString(readBigUInt64LE(buffer, offset)),
         length   |-> Number(readBigUInt64LE(buffer, offset + 8)),
         type     |-> type,
         typeName |-> getLimineTypeName(type)]

\* one iteration of the RAT sample loop: the page at index i (from 0)
memoryPage(buffer, offset, ramStart, i) ==
    LET pageType == readUInt8(buffer, offset + i) IN
    [index        |-> i,
     address      |-> toHexString(BigIntAdd(ramStart, i * 4096)),
     size         |-> 4096,
     pageType     |-> pageType,
     pageTypeName |-> getPageTypeName(pageType)]

\* the body shared by readAndParseBufferQMP and readAndParseBufferFromFile
\* from `let offset = 0` to the assignment of currentMemoryState: the error
\* thrown, or the new state; `end` is the offset after the last byte read
parseBuffer(buffer) ==
    IF ~InRange(buffer, 12, 8)
    THEN [err |-> "RangeError",
          end |-> IF Len(buffer) < 8 THEN 0 ELSE IF Len(buffer) < 12 THEN 8 ELSE 12]
    ELSE IF magicMismatch(readBigUInt64LE(buffer, 0)) THEN [err |-> "BadMagic", end |-> 20]
    ELSE IF ~InRange(buffer, 20, 4) THEN [err |-> "RangeError", end |-> 20]
    ELSE
    LET n == limineLoopBound(readUInt32LE(buffer, 20)) IN
    IF Len(buffer) - 24 < 24 * n
    THEN [err |-> "RangeError", end |-> 24 + 8 * ((Len(buffer) - 24) \div 8)]
    ELSE IF ~InRange(buffer, allocatorOffset, 6 * 8 + 4)
    THEN [err |-> "RangeError",
          end |-> IF Len(buffer) < allocatorOffset + 8 THEN 24 + 24 * n
                  ELSE allocatorOffset + 8 * ((Len(buffer) - allocatorOffset) \div 8)]
    ELSE
    LET ramStart        == readBigUInt64LE(buffer, allocatorOffset)
        heapEnd         == readBigUInt64LE(buffer, allocatorOffset + 8)
        ratLocation     == readBigUInt64LE(buffer, allocatorOffset + 16)
        ramSize         == readBigUInt64LE(buffer, allocatorOffset + 24)
        totalPageCount  == readBigUInt64LE(buffer, allocatorOffset + 32)
        freePageCount   == readBigUInt64LE(buffer, allocatorOffset + 40)
        offset          == allocatorOffset + 6 * 8 + 4
        m               == ratLoopBound(readUInt32LE(buffer, allocatorOffset + 48))
    IN
    IF Len(buffer) - offset < m THEN [err |-> "RangeError", end |-> Len(buffer)]
    ELSE [err |-> "none",
          end |-> offset + m,
          state |->
            [limineMemoryMap |-> [k \in 1..n |-> limineEntry(buffer, k - 1)],
             pageAllocator |->
               [ramStart       |-> toHexString(ramStart),
                heapEnd        |-> toHexString(heapEnd),
                ratLocation    |-> toHexString(ratLocation),
                ramSize        |-> Number(ramSize),
                totalPageCount |-> Number(totalPageCount),
                freePageCount  |-> Number(freePageCount),
                usedPageCount  |-> NumberOfDifference(totalPageCount, freePageCount),
                pages |-> [k \in 1..m |-> memoryPage(buffer, offset, ramStart, k - 1)]]]]

\* ------------------------------------------- buffers the guest can publish
\* The guest-side writer is not part of this repository: encode lays a
\* snapshot out as section 6 of the specification gives the wire format.
U32LE(k) == SubSeq(FromInt(k), 1, 4)
Repeat(b, n) == [i \in 1..n |-> b]

\* the memory-map slots in use: base, length and kind of each entry, 8 bytes each
mapBytes(memoryMap) ==
    [i \in 1..(24 * Len(memoryMap)) |->
        LET e == memoryMap[((i - 1) \div 24) + 1]
            f == ((i - 1) % 24) \div 8
            b == ((i - 1) % 8) + 1
        IN  IF f = 0 THEN e.base[b] ELSE IF f = 1 THEN e.length[b] ELSE e.kind[b]]

\* `pad` is the byte left in the unused slots of the two arrays
encode(snapshot, pad) ==
    MAGIC_NUMBER
      \o U32LE(snapshot.version)
      \o snapshot.timestamp
      \o U32LE(Len(snapshot.memoryMap))
      \o mapBytes(snapshot.memoryMap)
      \o Repeat(pad, 24 * (MAX_LIMINE_ENTRIES - Len(snapshot.memoryMap)))
      \o snapshot.ramStart \o snapshot.heapEnd \o snapshot.tableLocation
      \o snapshot.ramSize \o snapshot.totalPageCount \o snapshot.freePageCount
      \o U32LE(Len(snapshot.pageSample))
      \o snapshot.pageSample
      \o Repeat(pad, MAX_RAT_SAMPLE - Len(snapshot.pageSample))

\* 2^53, the first integer whose successor a double cannot hold
TwoTo53 == <<0, 0, 0, 0, 0, 0, 32, 0>>
AllOnes == <<255, 255, 255, 255, 255, 255, 255, 255>>

SmallSnapshot ==
    [version |-> 1, timestamp |-> FromInt(77),
     memoryMap |-> <<[base |-> FromInt(4096), length |-> FromInt(651264), kind |-> FromInt(0)],
                     [base |-> FromInt(1048576), length |-> FromInt(16777216), kind |-> FromInt(6)]>>,
     ramStart |-> FromInt(2097152), heapEnd |-> FromInt(4194304),
     tableLocation |-> FromInt(4190208), ramSize |-> FromInt(2097152),
     totalPageCount |-> FromInt(512), freePageCount |-> FromInt(500),
     pageSample |-> <<0, 3, 128>>]
EmptySnapshot ==
    [SmallSnapshot EXCEPT !.memoryMap = <<>>, !.pageSample = <<>>]
FullSnapshot ==
    [SmallSnapshot EXCEPT
        !.memoryMap = [i \in 1..MAX_LIMINE_ENTRIES |->
                          [base |-> FromInt(65536 * i), length |-> FromInt(4096 * i),
                           kind |-> FromInt(i % 9)]],
        !.pageSample = [i \in 1..MAX_RAT_SAMPLE |->
                          IF i % 4 = 0 THEN 3 ELSE IF i % 7 = 0 THEN 200 ELSE 0]]
\* 64-bit fields that use their whole width
WideSnapshot ==
    [SmallSnapshot EXCEPT
        !.memoryMap = <<[base |-> AllOnes, length |-> BigIntAdd(TwoTo53, 1),
                         kind |-> FromInt(7)]>>,
        !.ramSize = TwoTo53,
        !.totalPageCount = FromInt(10), !.freePageCount = FromInt(12),
        !.pageSample = <<11>>]
Snapshots == {SmallSnapshot, EmptySnapshot, FullSnapshot, WideSnapshot}

\* lengths a file or a parsed reply can have, around each read of the decoder
BufferLengths ==
    {0, 7, 8, 19, 20, 23, 24, 71, 72, allocatorOffset - 1, ratSampleOffset - 1,
     ratSampleOffset, ratSampleOffset + 1, ratSampleOffset + 3, bufferSize - 1,
     bufferSize, 4096}
NearMagic == <<83, 79, 77, 83, 79, 67, 0, 1>>
CountOverrides == {-1, MAX_LIMINE_ENTRIES + 1, MAX_RAT_SAMPLE + 1, 2147483647}

\* how a published buffer differs from the layout of a snapshot: its length,
\* its magic, its two count fields (-1: the snapshot's own) and its padding
Damages ==
    {d \in [snapshot : Snapshots, pad : {0, 255}, len : BufferLengths,
            magic : {MAGIC_NUMBER, BadMagic, NearMagic},
            mapCount : CountOverrides, sampleCount : CountOverrides] :
        /\ d.pad = 255 => d.len >= bufferSize
        /\ d.len < bufferSize => d.mapCount = -1
        /\ d.len < bufferSize => d.sampleCount \in {-1, 2147483647}
        /\ d.magic # MAGIC_NUMBER => (d.mapCount = -1 /\ d.sampleCount = -1)
        /\ d.magic = NearMagic => d.len >= bufferSize
        /\ (d.mapCount # -1 \/ d.sampleCount # -1) => d.snapshot \in {SmallSnapshot, FullSnapshot}}

\* the bytes published for a damage
Published(d) ==
    LET e  == encode(d.snapshot, d.pad)
        m  == [i \in 1..Len(e) |->
                 IF i <= 8 THEN d.magic[i]
                 ELSE IF d.mapCount # -1 /\ i \in 21..24 THEN U32LE(d.mapCount)[i - 20]
                 ELSE IF d.sampleCount # -1 /\ i \in (ratSampleOffset - 3)..ratSampleOffset
                      THEN U32LE(d.sampleCount)[i - (ratSampleOffset - 4)]
                 ELSE e[i]]
    IN  IF d.len <= Len(m) THEN SubSeq(m, 1, d.len)
        ELSE m \o Repeat(d.pad, d.len - Len(m))

\* the state an earlier tick stored
PriorState == parseBuffer(encode(EmptySnapshot, 0)).state

\* a tick of the shared-memory variant is about to read and parse: the panel
\* is open and polling, with or without a snapshot from an earlier tick
InitDecode ==
    /\ variant = "shm"
    /\ isLive = TRUE /\ pollTimer = 1 /\ timers = {1}
    /\ memoryPanel = TRUE
    /\ \E prior \in {NoState, PriorState} :
          /\ currentMemoryState = prior
          /\ html = IF prior = NoState THEN "loading" ELSE "viewer"
    /\ debugBufferAddress = 0 /\ shmemPath = TRUE /\ qmpClient = 0
    /\ clients = [c \in 1..MaxClients |-> NewClientRec]
    /\ socks = [sk \in 1..MaxSockets |-> NewSockRec]
    /\ inv = [i \in 1..MaxInv |-> IdleInv]
    /\ activeDebugSession = TRUE /\ cosmosSession = TRUE
    /\ event = NoEvent
    /\ ret = NoRet
    /\ NoPage
    /\ \E d \in Damages :
          call = [fn |-> "readAndParseBuffer", pc |-> "start", damage |-> d,
                  buffer |-> Published(d)]

\* readAndParseBufferFromFile on the bytes read: parse, then on success
\* store the state and call updateWebview; a throw leaves both alone
ReadAndParseBuffer ==
    /\ call.fn = "readAndParseBuffer"
    /\ call.pc = "start"
    /\ LET r == parseBuffer(call.buffer)
           s == IF r.err = "none"
                THEN updateWebview([State EXCEPT !.currentMemoryState = r.state])
                ELSE State
       IN  /\ currentMemoryState' = s.currentMemoryState
           /\ html' = s.html
           /\ ret' = [err |-> r.err, end |-> r.end]
    /\ call' = [call EXCEPT !.pc = "done"]
    /\ UNCHANGED <<variant, isLive, pollTimer, timers, memoryPanel,
                   debugBufferAddress, shmemPath, qmpClient, clients, socks, inv,
                   activeDebugSession, cosmosSession, event, dom, mailbox,
                   shown>>

NextDecode == ReadAndParseBuffer

SpecDecode == InitDecode /\ [][NextDecode]_vars

\* ================================================= publishing to the webview
\* The shared-memory variant (part_008:1040-2089). The document of the webview
\* is what getMemoryWebviewContent wrote into it, changed by the script of
\* that page, updateMemoryData, on each 'updateData' message. A string is the
\* sequence of its characters.
DecimalDigits == <<"0", "1", "2", "3", "4", "5", "6", "7", "8", "9">>
\* String(n) and `${n}` for an integer n >= 0
RECURSIVE String(_)
String(n) ==
    IF n < 10 THEN <<DecimalDigits[n + 1]>>
    ELSE String(n \div 10) \o <<DecimalDigits[(n % 10) + 1]>>

\* the value of a Number below 2^31
Value(a) == a[1] + 256 * a[2] + 65536 * a[3] + 16777216 * a[4]

\* (num / den).toFixed(1) for num >= 0, den > 0
toFixed1(num, den) ==
    LET tenths == (num * 10 + den \div 2) \div den
    IN  String(tenths \div 10) \o <<".">> \o String(tenths % 10)

formatBytes(bytes) ==
    IF bytes >= 1024 * 1024 * 1024
    THEN toFixed1(bytes \div 1024, 1024 * 1024) \o <<" ", "G", "B">>
    ELSE IF bytes >= 1024 * 1024
    THEN toFixed1(bytes, 1024 * 1024) \o <<" ", "M", "B">>
    ELSE IF bytes >= 1024 THEN toFixed1(bytes, 1024) \o <<" ", "K", "B">>
    ELSE String(bytes) \o <<" ", "B">>

\* (num / den).toFixed(2) for num >= 0, den > 0
toFixed2(num, den) ==
    LET hundredths == (num * 100 + den \div 2) \div den
    IN  String(hundredths \div 100) \o <<".">>
          \o SubSeq(String(100 + (hundredths % 100)), 2, 3)

\* formatBytes of the script of the page, for bytes below 2^31
formatBytesInPage(bytes) ==
    IF bytes = 0 THEN <<"0", " ", "B">>
    ELSE IF bytes >= 1024 * 1024 * 1024
    THEN toFixed2(bytes \div 1024, 1024 * 1024) \o <<" ", "G", "B">>
    ELSE IF bytes >= 1024 * 1024
    THEN toFixed2(bytes \div 16, 65536) \o <<" ", "M", "B">>
    ELSE IF bytes >= 1024 THEN toFixed2(bytes, 1024) \o <<" ", "K", "B">>
    ELSE toFixed2(bytes, 1) \o <<" ", "B">>

\* Number.prototype.toLocaleString() of an integer below 10^6, en-US
toLocaleString(n) ==
    IF n < 1000 THEN String(n)
    ELSE String(n \div 1000) \o <<",">>
           \o SubSeq(String(1000 + (n % 1000)), 2, 4)

\* ((pa.usedPageCount / pa.totalPageCount) * 100).toFixed(1)
usedPercent(pa) ==
    LET used  == Value(pa.usedPageCount.magnitude)
        total == Value(pa.totalPageCount)
    IN  IF total = 0
        THEN IF used = 0 THEN <<"N", "a", "N">>
             ELSE IF pa.usedPageCount.negative THEN <<"-", "I", "n", "f">>
             ELSE <<"I", "n", "f">>
        ELSE (IF pa.usedPageCount.negative /\ used # 0 THEN <<"-">> ELSE <<>>)
               \o toFixed1(used * 100, total)

\* getPageTypeColor of the extension host
getPageTypeColor(type) ==
    CASE type = 0 -> "#2ecc71"
      [] type = 3 -> "#3498db"
      [] type = 5 -> "#9b59b6"
      [] type = 7 -> "#e74c3c"
      [] type = 9 -> "#f39c12"
      [] type = 11 -> "#1abc9c"
      [] type = 32 -> "#7f8c8d"
      [] type = 64 -> "#e67e22"
      [] type = 128 -> "#95a5a6"
      [] OTHER -> "#bdc3c7"

\* getPageTypeColor of the script of the page
getPageTypeColorInPage(type) ==
    CASE type = 0 -> "#7f8c8d"
      [] type = 3 -> "#3498db"
      [] type = 5 -> "#9b59b6"
      [] type = 7 -> "#e74c3c"
      [] type = 9 -> "#f39c12"
      [] type = 11 -> "#2ecc71"
      [] type = 32 -> "#e67e22"
      [] type = 64 -> "#1abc9c"
      [] type = 128 -> "#34495e"
      [] OTHER -> "#95a5a6"

\* one <div class="page-cell">: its background colour and its data attributes
pageCell(page, color) ==
    [backgroundColor |-> color,
     pageIndex       |-> String(page.index),
     address         |-> page.address,
     type            |-> String(page.pageType),
     typeName        |-> page.pageTypeName,
     size            |-> String(page.size)]

\* the four .overview-card-value texts as getMemoryWebviewContent writes them
overviewCards(pa) ==
    <<formatBytes(Value(pa.ramSize)),
      toLocaleString(Value(pa.totalPageCount)),
      toLocaleString(Value(pa.freePageCount)),
      usedPercent(pa) \o <<"%">>>>

\* and as updateMemoryData writes them
overviewCardsInPage(pa) ==
    <<formatBytesInPage(Value(pa.ramSize)),
      toLocaleString(Value(pa.totalPageCount)),
      toLocaleString(Value(pa.freePageCount)),
      usedPercent(pa) \o <<"%">>>>

limineRows(state) ==
    [i \in 1..Len(state.limineMemoryMap) |->
        LET entry == state.limineMemoryMap[i] IN
        [base |-> entry.base, length |-> formatBytes(Value(entry.length)),
         typeName |-> entry.typeName]]

\* the document of getMemoryWebviewContent(state)
getMemoryWebviewContent(state) ==
    LET pa == state.pageAllocator IN
    [grid  |-> TRUE,
     cards |-> overviewCards(pa),
     rows  |-> limineRows(state),
     info  |-> <<pa.ramStart, pa.heapEnd, pa.ratLocation>>,
     usage |-> usedPercent(pa),
     cells |-> [i \in 1..Len(pa.pages) |->
                  pageCell(pa.pages[i], getPageTypeColor(pa.pages[i].pageType))]]

\* mutation of cellChanged: every cell counts as changed
cellChanged_Always(cell, page) == TRUE

\* `oldType !== String(page.pageType)` in updateMemoryData
cellChanged(cell, page) == cell.type # String(page.pageType)

\* mutation of hasCards: the cards are not found
hasCards_Never(document) == FALSE

\* `if (cards[0])` .. `if (cards[3])` in updateMemoryData: the document has
\* its four .overview-card-value elements
hasCards(document) == Len(document.cards) = 4

\* updateMemoryData(state) in a document: the new document, the indices of
\* the cells it wrote and whether it regenerated the grid
updateMemoryData(document, state) ==
    LET pa    == state.pageAllocator
        d1    == IF hasCards(document)
                 THEN [document EXCEPT !.cards = overviewCardsInPage(pa)] ELSE document
        cells == d1.cells
    IN  IF ~(d1.grid /\ Len(pa.pages) > 0)
        THEN [document |-> d1, changed |-> {}, regenerated |-> FALSE]
        ELSE IF Len(cells) # Len(pa.pages)
        THEN [document |-> [d1 EXCEPT !.cells =
                  [i \in 1..Len(pa.pages) |->
                     pageCell(pa.pages[i], getPageTypeColorInPage(pa.pages[i].pageType))]],
              changed |-> 1..Len(pa.pages), regenerated |-> TRUE]
        ELSE LET hit == {i \in 1..Len(cells) : cellChanged(cells[i], pa.pages[i])} IN
             [document |-> [d1 EXCEPT !.cells =
                  [i \in 1..Len(cells) |->
                     IF i \in hit
                     THEN [cells[i] EXCEPT
                             !.backgroundColor = getPageTypeColorInPage(pa.pages[i].pageType),
                             !.type = String(pa.pages[i].pageType),
                             !.typeName = pa.pages[i].pageTypeName,
                             !.address = pa.pages[i].address,
                             !.size = String(pa.pages[i].size)]
                     ELSE cells[i]]],
              changed |-> hit, regenerated |-> FALSE]

\* mutation of needsInitialLoad: the viewer page is never loaded
needsInitialLoad_Never(h) == FALSE

\* `!memoryPanel.webview.html.includes('pages-grid')`
needsInitialLoad(h) == h # "viewer"

\* a whole page written from a state
Rendered(by, state) ==
    [by |-> by, prev |-> state, changed |-> 1..Len(state.pageAllocator.pages),
     regenerated |-> TRUE]

View == [memoryPanel |-> memoryPanel, html |-> html,
         currentMemoryState |-> currentMemoryState, dom |-> dom,
         mailbox |-> mailbox, shown |-> shown, tick |-> "none"]

\* updateWebview of the shared-memory variant: the viewer page the first
\* time, a message to the page afterwards
updateWebviewShm(v) ==
    IF ~v.memoryPanel \/ v.currentMemoryState = NoState THEN v
    ELSE IF needsInitialLoad(v.html)
    THEN [v EXCEPT !.html = "viewer",
                   !.dom = getMemoryWebviewContent(v.currentMemoryState),
                   !.shown = Rendered("html", v.currentMemoryState)]
    ELSE [v EXCEPT !.mailbox = Append(@, v.currentMemoryState)]

\* ------------------------------------------------- snapshots to publish
MaxPages == 2
MaxInFlight == 1
PageKinds == {0, 3, 200}
PageSamples == UNION {[1..n -> PageKinds] : n \in 0..MaxPages}
\* a second guest state: other addresses, other counters, an empty memory map
OtherSnapshot ==
    [SmallSnapshot EXCEPT !.memoryMap = <<>>, !.ramStart = FromInt(4194304),
                          !.ramSize = FromInt(1536),
                          !.totalPageCount = FromInt(2000),
                          !.freePageCount = FromInt(1250)]
\* what a tick finds at the shared-memory path: no file, a file cut short,
\* or the whole buffer of a guest state with a page sample
FileReads ==
    {[exists |-> FALSE, cut |-> FALSE, other |-> FALSE, sample |-> <<>>],
     [exists |-> TRUE, cut |-> TRUE, other |-> FALSE, sample |-> <<>>]}
       \cup [exists : {TRUE}, cut : {FALSE}, other : BOOLEAN, sample : PageSamples]
GuestSnapshot(in) ==
    [(IF in.other THEN OtherSnapshot ELSE SmallSnapshot) EXCEPT !.pageSample = in.sample]
\* each of them with what parseBuffer makes of its bytes
Reads ==
    {[exists |-> in.exists,
      parsed |-> LET e == encode(GuestSnapshot(in), 0) IN
                 parseBuffer(IF in.cut THEN SubSeq(e, 1, ratSampleOffset - 1) ELSE e)] :
        in \in FileReads}

\* requestMemoryData of the shared-memory variant with the path resolved:
\* readAndParseBufferFromFile stores the state and calls updateWebview
requestMemoryDataShm(v, in) ==
    IF ~in.exists THEN [v EXCEPT !.tick = "NotReady"]
    ELSE LET r == in.parsed IN
         IF r.err # "none" THEN [v EXCEPT !.tick = r.err]
         ELSE [updateWebviewShm([v EXCEPT !.currentMemoryState = r.state])
                  EXCEPT !.tick = "Ok"]

\* showMemoryRegions without a panel, up to startPolling
createPanel(v) ==
    IF v.currentMemoryState # NoState
    THEN [v EXCEPT !.memoryPanel = TRUE, !.html = "viewer",
                   !.dom = getMemoryWebviewContent(v.currentMemoryState),
                   !.shown = Rendered("created", v.currentMemoryState)]
    ELSE [v EXCEPT !.memoryPanel = TRUE, !.html = "loading",
                   !.dom = LoadingDocument, !.shown = NoShown]

\* refreshMemoryPanel: the viewer page again, from the state held
refreshMemoryPanel(v) ==
    IF v.memoryPanel /\ v.currentMemoryState # NoState
    THEN [v EXCEPT !.html = "viewer",
                   !.dom = getMemoryWebviewContent(v.currentMemoryState),
                   !.shown = Rendered("html", v.currentMemoryState)]
    ELSE v

\* the 'message' listener of the page on an 'updateData' message
onUpdateData(v) ==
    LET state == Head(v.mailbox)
        u     == updateMemoryData(v.dom, state)
    IN  [v EXCEPT !.mailbox = Tail(@), !.dom = u.document,
                  !.shown = [by |-> "message", prev |-> state,
                             changed |-> u.changed, regenerated |-> u.regenerated]]

CommitView(v) ==
    /\ Len(v.mailbox) <= MaxInFlight
    /\ memoryPanel' = v.memoryPanel
    /\ html' = v.html
    /\ currentMemoryState' = v.currentMemoryState
    /\ dom' = v.dom
    /\ mailbox' = v.mailbox
    /\ shown' = v.shown
    /\ event' = [NoEvent EXCEPT !.tick = v.tick]
    /\ UNCHANGED <<variant, debugBufferAddress, qmpClient, clients, socks, inv,
                   activeDebugSession, cosmosSession, call, ret>>

\* the extension is active in a Cosmos debug session, no panel yet
InitPublish ==
    /\ ControllerInit
    /\ variant = "shm"
    /\ NoPage
    /\ call = NoCall /\ ret = NoRet

\* cosmos.memoryRegions without a panel: the panel, then startPolling with
\* its immediate read
ShowPanelAndRead ==
    /\ ~memoryPanel
    /\ \E in \in Reads : CommitView(requestMemoryDataShm(createPanel(View), in))
    /\ isLive' = TRUE /\ pollTimer' = 1 /\ timers' = {1} /\ shmemPath' = TRUE

\* a tick of the poll timer
TimerTickReads ==
    /\ memoryPanel /\ pollTimer # 0
    /\ \E in \in Reads : CommitView(requestMemoryDataShm(View, in))
    /\ UNCHANGED <<isLive, pollTimer, timers, shmemPath>>

\* the page receives the oldest message in flight
WebviewReceivesUpdate ==
    /\ memoryPanel /\ mailbox # <<>>
    /\ CommitView(onUpdateData(View))
    /\ UNCHANGED <<isLive, pollTimer, timers, shmemPath>>

\* refreshMemoryPanel is called while a panel is open
PanelRefreshed ==
    /\ memoryPanel
    /\ CommitView(refreshMemoryPanel(View))
    /\ UNCHANGED <<isLive, pollTimer, timers, shmemPath>>

\* the user closes the panel: onDidDispose; the page and its messages are gone
ViewerDisposed ==
    /\ memoryPanel
    /\ CommitView([View EXCEPT !.memoryPanel = FALSE, !.html = "none",
                               !.dom = LoadingDocument, !.mailbox = <<>>,
                               !.shown = NoShown])
    /\ isLive' = FALSE /\ pollTimer' = 0 /\ timers' = {}
    /\ UNCHANGED shmemPath

\* closeMemoryPanel: the panel is disposed and the state forgotten
ViewerClosed ==
    /\ CommitView([View EXCEPT !.memoryPanel = FALSE, !.html = "none",
                               !.dom = LoadingDocument, !.mailbox = <<>>,
                               !.shown = NoShown, !.currentMemoryState = NoState])
    /\ isLive' = FALSE /\ pollTimer' = 0 /\ timers' = {} /\ shmemPath' = FALSE

NextPublish ==
    \/ ShowPanelAndRead
    \/ TimerTickReads
    \/ WebviewReceivesUpdate
    \/ PanelRefreshed
    \/ ViewerDisposed
    \/ ViewerClosed

SpecPublish == InitPublish /\ [][NextPublish]_vars

\* ================================================================== claims
Slots == 1..MaxInv
Clients == 1..MaxClients
Sockets == 1..MaxSockets

\* C1: at most one memory read is in flight: no two requestMemoryData
\* invocations are awaiting a read at the same time.
C1_ReadsNeverOverlap ==
    Cardinality({i \in Slots : inv[i].pc = "reading"}) <= 1

\* C2: every step that takes the controller from Live to Stopped cancels the
\* poll timer, drops the transport and clears the cached address (monitor
\* channel) or the cached shared-memory path.
C2_StopReleasesEverything ==
    [][(isLive /\ ~isLive') =>
         /\ pollTimer' = 0
         /\ timers' = {}
         /\ variant = "qmp" => (qmpClient' = 0 /\ debugBufferAddress' = 0)
         /\ variant = "shm" => ~shmemPath']_vars

\* C3: after any sequence of starts and stops at most one repeating poll
\* timer is active.
C3_AtMostOneTimer ==
    Cardinality(timers) <= 1

\* C3 witness: polling was started while a timer handle was still held, and
\* the restart left exactly the new timer running.
C3_Restarted ==
    pollTimer = 2 /\ timers = {2} /\ isLive

\* C4: a command carries an id greater than every id its client wrote before;
\* a response removes from the request table exactly the entry with its id and
\* resumes no other waiter; a response matching no entry changes nothing.
C4_IdsIncreaseAndResponsesCorrelate ==
    [][/\ \A c \in Clients : \A id \in 1..MaxId :
            event'.sent[1] = c /\ event'.sent[2] = id =>
                \A j \in clients[c].written : j < id
       /\ \A c \in Clients : \A id \in 1..MaxId :
            event'.rx = <<c, id>> =>
                /\ \A c2 \in Clients :
                      clients[c2].pendingRequests \ clients'[c2].pendingRequests
                          \subseteq (IF c2 = c THEN {id} ELSE {})
                /\ \A i \in Slots :
                      (inv[i].pc = "reading" /\ <<inv[i].cl, inv[i].id>> # <<c, id>>)
                          => inv'[i] = inv[i]
                /\ id \notin clients[c].pendingRequests =>
                      /\ clients' = clients
                      /\ inv' = inv
                      /\ socks' = socks
                      /\ currentMemoryState' = currentMemoryState
                      /\ event'.tick = "none"]_vars

\* C4 witness: a client that has written several commands received a response
\* matching none of its pending requests while a read was pending.
C4_StaleResponseSeen ==
    \E c \in Clients :
        /\ event.rx[1] = c
        /\ ~event.matched
        /\ clients[c].pendingRequests # {}
        /\ clients[c].nextId > 2
        /\ \E i \in Slots : inv[i].pc = "reading" /\ inv[i].cl = c

\* C5: when the 10 s timeout of a pending request fires, that request alone
\* leaves the request table and is rejected; the socket, the connected flag
\* and every other pending request stay as they were.
C5_TimeoutRejectsOneRequest ==
    [][\A c \in Clients : \A id \in 1..MaxId :
          event'.timeout = <<c, id>> =>
              /\ id \in clients[c].pendingRequests
              /\ event'.tick \in {"CommandTimeout", "none"}
              /\ \A i \in Slots :
                    (inv[i].pc = "reading" /\ inv[i].cl = c /\ inv[i].id = id)
                        => (inv'[i].pc = "idle" /\ event'.tick = "CommandTimeout")
              /\ \A i \in Slots :
                    (inv[i].pc = "reading" /\ <<inv[i].cl, inv[i].id>> # <<c, id>>)
                        => inv'[i] = inv[i]
              /\ clients'[c].used =>
                    /\ clients'[c].pendingRequests = clients[c].pendingRequests \ {id}
                    /\ clients'[c].socket = clients[c].socket
                    /\ clients'[c].connected = clients[c].connected
              /\ \A sk \in Sockets :
                    socks[sk].status \in {"open", "ended"}
                        => socks'[sk].status = socks[sk].status]_vars

\* C5 witness: a read of the connected client timed out while another read of
\* the same client was pending, and that one is still pending on a live socket.
C5_TimedOutBesideAnother ==
    \E c \in Clients :
        /\ event.timeout[1] = c
        /\ event.tick = "CommandTimeout"
        /\ qmpClient = c
        /\ clients[c].connected
        /\ clients[c].socket # 0
        /\ clients[c].pendingRequests # {}

\* C6: a client reports connected only after the greeting was received, then
\* qmp_capabilities was sent, then its acknowledgement was received; and a
\* memory-read command is only ever sent on such a client.
C6_ConnectedOnlyAfterHandshake ==
    /\ \A c \in Clients : clients[c].connected => clients[c].hs = "acked"
    /\ \A c \in Clients :
          (event.sent[1] = c /\ event.sent[3] = "human-monitor-command")
              => clients[c].hs = "acked"

\* C6 witness: a read command has just been sent on a connected client.
C6_ReadSentOnConnected ==
    \E c \in Clients :
        /\ event.sent[1] = c
        /\ event.sent[3] = "human-monitor-command"
        /\ clients[c].connected

\* C7: a connection attempt whose 5 s handshake timer expired before the
\* handshake completed is never afterwards usable: its client does not
\* report connected.
C7_TimedOutNeverConnected ==
    \A sk \in Sockets :
        socks[sk].timedOut => ~clients[socks[sk].client].connected

\* C8: a tick that finds a bad magic number, or finds the buffer not yet
\* available, shows no user-facing error and leaves the controller Live with
\* its timer scheduled.
C8_NotReadyIsSilent ==
    [][event'.tick \in {"BadMagic", "NotReady"} =>
          /\ ~event'.notified
          /\ isLive => (isLive' /\ pollTimer' \in timers')]_vars

\* the per-tick failures of C9
TickFailures ==
    {"ConnectTimeout", "SocketError", "NotConnected", "NoSocketPath",
     "CommandTimeout", "CommandError", "RangeError", "TypeError"}

\* C9: a tick that ends in a connect failure, a request timeout, a socket
\* error or a short buffer leaves the controller Live with its timer
\* scheduled, also when it is the first read made by start itself.
C9_TickFailureKeepsPolling ==
    [][(/\ event'.tick \in TickFailures
        /\ isLive \/ (pollTimer' # 0 /\ pollTimer' # pollTimer))
          => (isLive' /\ pollTimer' \in timers')]_vars

\* C9 witness: a read timed out in a suspended tick and the controller is
\* still Live with its timer running.
C9_FailedTickStillLive ==
    /\ event.tick \in {"CommandTimeout", "RangeError"}
    /\ isLive
    /\ pollTimer \in timers

\* C10: when no candidate symbol is found the failure is shown and polling
\* for the session stops.
C10_ResolutionErrorStopsPolling ==
    event.tick = "ResolutionError" =>
        (event.notified /\ ~isLive /\ timers = {})

\* C11: a poll tick that runs while there is no active debug session makes
\* no transport read, raises no error and leaves the controller Stopped.
C11_NoSessionTickStops ==
    [][(~activeDebugSession /\ PollTick) =>
          /\ event'.tick \in {"NoSession"}
          /\ event'.sent = NoEvent.sent
          /\ ~event'.notified
          /\ ~isLive']_vars

\* the bytes the tokens of the reply under test stand for, cut to `size`
TokenBytes ==
    [k \in 1..Min(Len(call.toks), call.size) |-> call.toks[k].value]

\* C12: for a reply made of address labels and 0xHH byte tokens readMemory
\* returns exactly the values of the byte tokens, in reply order; the labels
\* contribute no byte.
C12_ReadMemoryReturnsTokenBytes ==
    (call.fn = "readMemory" /\ call.pc = "returned") => ret = TokenBytes

\* C13: whatever the reply and the requested size, readMemory returns exactly
\* `size` bytes.
C13_ReadMemoryReturnsSizeBytes ==
    (call.fn = "readMemory" /\ call.pc = "returned") => Len(ret) = call.size

\* a decode of the buffer under test has just finished
Decoded == call.fn = "readAndParseBuffer" /\ call.pc = "start" /\ call'.pc = "done"

\* C14: for every buffer shorter than the fixed total size, whatever its count
\* fields hold, decoding fails and no snapshot is stored or shown.
C14_ShortBufferNeverDecodes ==
    [][(Decoded /\ Len(call.buffer) < bufferSize) =>
          /\ ret'.err # "none"
          /\ currentMemoryState' = currentMemoryState
          /\ html' = html]_vars

\* the count fields as the buffer under test carries them
WrittenMapCount ==
    IF call.damage.mapCount = -1 THEN Len(call.damage.snapshot.memoryMap)
    ELSE call.damage.mapCount
WrittenSampleCount ==
    IF call.damage.sampleCount = -1 THEN Len(call.damage.snapshot.pageSample)
    ELSE call.damage.sampleCount

\* C15: the decoder never reads a byte at or beyond the fixed total size and
\* never yields more than 64 regions or 1000 pages; a full-size buffer with
\* the sentinel decodes to exactly min(count, cap) entries of each kind, also
\* when its counts exceed the caps.
C15_CountsAreClamped ==
    (call.fn = "readAndParseBuffer" /\ call.pc = "done") =>
        /\ ret.end <= bufferSize
        /\ ret.err = "none" =>
              /\ Len(currentMemoryState.limineMemoryMap) <= MAX_LIMINE_ENTRIES
              /\ Len(currentMemoryState.pageAllocator.pages) <= MAX_RAT_SAMPLE
        /\ (Len(call.buffer) >= bufferSize /\ call.damage.magic = MAGIC_NUMBER) =>
              /\ ret.err = "none"
              /\ Len(currentMemoryState.limineMemoryMap)
                    = (IF WrittenMapCount > 64 THEN 64 ELSE WrittenMapCount)
              /\ Len(currentMemoryState.pageAllocator.pages)
                    = (IF WrittenSampleCount > 1000 THEN 1000 ELSE WrittenSampleCount)

\* C15 witness: a buffer announcing 65 regions and 1001 pages was decoded to
\* 64 regions and 1000 pages.
C15_OversizedCountsDecoded ==
    /\ call.fn = "readAndParseBuffer" /\ call.pc = "done"
    /\ call.damage.mapCount = 65 /\ call.damage.sampleCount = 1001
    /\ ret.err = "none"
    /\ Len(currentMemoryState.limineMemoryMap) = 64
    /\ Len(currentMemoryState.pageAllocator.pages) = 1000

\* C16 as stated: every buffer whose first 8 bytes differ from the sentinel
\* fails with the bad-magic error and leaves the snapshot and the display.
C16_BadMagicAnyBuffer ==
    [][(Decoded /\ Len(call.buffer) >= 8 /\ SubSeq(call.buffer, 1, 8) # MAGIC_NUMBER) =>
          /\ ret'.err = "BadMagic"
          /\ currentMemoryState' = currentMemoryState
          /\ html' = html]_vars

\* C16 amended: every buffer of at least 20 bytes (magic, version, timestamp)
\* whose first 8 bytes differ from the sentinel fails with the bad-magic
\* error, whatever follows; a shorter one fails with a range error; either
\* way the stored snapshot and the display are unchanged.
C16_BadMagicFromTwentyBytes ==
    [][(Decoded /\ Len(call.buffer) >= 8 /\ SubSeq(call.buffer, 1, 8) # MAGIC_NUMBER) =>
          /\ ret'.err = (IF Len(call.buffer) >= 20 THEN "BadMagic" ELSE "RangeError")
          /\ currentMemoryState' = currentMemoryState
          /\ html' = html]_vars

\* C16 witness: a full-size buffer holding a complete snapshot behind a magic
\* that is off by one bit was refused while an earlier snapshot is on display.
C16_NearMagicRefused ==
    /\ call.fn = "readAndParseBuffer" /\ call.pc = "done"
    /\ call.damage.magic = NearMagic
    /\ call.damage.snapshot = FullSnapshot
    /\ ret.err = "BadMagic"
    /\ currentMemoryState = PriorState
    /\ html = "viewer"

\* the value a '0x...' string of the decoded state denotes, as 8 digits
ParseHex(str) ==
    LET n      == Len(str) - 2
        nib(j) == IF j < n THEN HexDigitValue(str[Len(str) - j]) ELSE 0
    IN  [i \in 1..8 |-> nib(2 * (i - 1)) + 16 * nib(2 * (i - 1) + 1)]

\* the decoded state holds what the snapshot held
SameAsSnapshot(state, snapshot) ==
    /\ Len(state.limineMemoryMap) = Len(snapshot.memoryMap)
    /\ \A k \in 1..Len(snapshot.memoryMap) :
          /\ ParseHex(state.limineMemoryMap[k].base) = snapshot.memoryMap[k].base
          /\ state.limineMemoryMap[k].length = snapshot.memoryMap[k].length
          /\ state.limineMemoryMap[k].type = snapshot.memoryMap[k].kind
    /\ ParseHex(state.pageAllocator.ramStart) = snapshot.ramStart
    /\ ParseHex(state.pageAllocator.heapEnd) = snapshot.heapEnd
    /\ ParseHex(state.pageAllocator.ratLocation) = snapshot.tableLocation
    /\ state.pageAllocator.ramSize = snapshot.ramSize
    /\ state.pageAllocator.totalPageCount = snapshot.totalPageCount
    /\ state.pageAllocator.freePageCount = snapshot.freePageCount
    /\ Len(state.pageAllocator.pages) = Len(snapshot.pageSample)
    /\ \A k \in 1..Len(snapshot.pageSample) :
          state.pageAllocator.pages[k].pageType = snapshot.pageSample[k]

\* C17: encoding a snapshot of at most 64 regions and 1000 pages into the
\* fixed layout and decoding the bytes reproduces its regions, its allocator
\* scalars and its page kinds.
C17_RoundTrip ==
    (/\ call.fn = "readAndParseBuffer" /\ call.pc = "done"
     /\ call.buffer = encode(call.damage.snapshot, call.damage.pad)) =>
        /\ ret.err = "none"
        /\ SameAsSnapshot(currentMemoryState, call.damage.snapshot)

\* a step that leaves a panel open and starts where its display session has
\* published nothing yet: the panel is created, or it shows the placeholder
BeforeFirstPublish == memoryPanel' /\ (~memoryPanel \/ html = "loading")
\* the first publish is a full render: the page is the viewer page written
\* from the state just decoded, with no message in flight
FirstPublishIsFullRender ==
    /\ html' = "viewer"
    /\ dom' = getMemoryWebviewContent(currentMemoryState')
    /\ mailbox' = <<>>
    /\ shown'.by = "html"
    /\ shown'.prev = currentMemoryState'

\* C18: in each display session the panel shows the loading placeholder from
\* its creation until the first snapshot is decoded, and that first publish
\* is a full render of the whole snapshot
C18_PlaceholderUntilFirstRender ==
    [][BeforeFirstPublish =>
          IF event'.tick = "Ok" THEN FirstPublishIsFullRender
          ELSE html' = "loading" /\ dom' = LoadingDocument]_vars

\* C18, amended: the same in each display session that starts with no
\* snapshot kept from an earlier one
C18_PlaceholderUnlessSnapshotKept ==
    [][(BeforeFirstPublish /\ (~memoryPanel => currentMemoryState = NoState)) =>
          IF event'.tick = "Ok" THEN FirstPublishIsFullRender
          ELSE html' = "loading" /\ dom' = LoadingDocument]_vars

\* a first snapshot with pages has just replaced the placeholder
C18_FirstRenderShown ==
    /\ memoryPanel /\ html = "viewer" /\ event.tick = "Ok"
    /\ shown.by = "html" /\ mailbox = <<>>
    /\ Len(dom.cells) = MaxPages

\* the page has just handled a message: the snapshot it held before
DeliveredOver(prev) ==
    /\ memoryPanel /\ memoryPanel' /\ mailbox # <<>> /\ mailbox' = Tail(mailbox)
    /\ shown'.by = "message" /\ shown.prev = prev /\ prev # NoState
SampleLength(state) == Len(state.pageAllocator.pages)
Kinds(state) == [i \in 1..SampleLength(state) |-> state.pageAllocator.pages[i].pageType]
\* the grid of a document is the one a full render of the state writes
GridOf(document, state) ==
    /\ Len(document.cells) = SampleLength(state)
    /\ \A i \in 1..SampleLength(state) :
          LET page == state.pageAllocator.pages[i] IN
          /\ document.cells[i].type = String(page.pageType)
          /\ document.cells[i].address = page.address
          /\ document.cells[i].pageIndex = String(page.index)

\* C19: a publish whose page-sample length differs from that of the snapshot
\* published before it rebuilds the whole grid from the new snapshot, for
\* every pair of differing lengths
C19_LengthChangeRebuildsGrid ==
    [][\A prev \in {shown.prev} :
          (DeliveredOver(prev) /\ SampleLength(prev) # SampleLength(shown'.prev)) =>
             shown'.regenerated /\ GridOf(dom', shown'.prev)]_vars

\* C20: a publish whose page-sample length is that of the snapshot published
\* before it writes exactly the cells whose kind differs between the two,
\* and none when the two snapshots are identical
C20_PatchWritesChangedKindsOnly ==
    [][\A prev \in {shown.prev} :
          (DeliveredOver(prev) /\ SampleLength(prev) = SampleLength(shown'.prev)) =>
             /\ ~shown'.regenerated
             /\ shown'.changed =
                   {i \in 1..SampleLength(prev) : Kinds(prev)[i] # Kinds(shown'.prev)[i]}
             /\ \A i \in (1..Len(dom.cells)) \ shown'.changed : dom'.cells[i] = dom.cells[i]
             /\ (shown'.prev = prev => shown'.changed = {} /\ dom'.cells = dom.cells)]_vars

\* a message has patched one of two cells and left the other
C20_OneCellPatched ==
    /\ shown.by = "message" /\ ~shown.regenerated
    /\ Len(dom.cells) = MaxPages /\ Cardinality(shown.changed) = 1

\* a step in which the page was given a snapshot: by a message, or by a
\* new assignment of the viewer page
PublishedByMessage ==
    memoryPanel /\ memoryPanel' /\ mailbox # <<>> /\ mailbox' = Tail(mailbox)
       /\ shown'.by = "message"
PublishedByReload ==
    memoryPanel /\ html = "viewer" /\ html' = "viewer" /\ mailbox' = mailbox
       /\ shown'.by = "html" /\ event'.tick = "none"
\* the texts that show the four counters of a state: the size as a number
\* of B, KB, MB or GB, the two counts, the used pages as a percentage
ShowsCounters(cards, state, decimals) ==
    LET pa == state.pageAllocator IN
    /\ Len(cards) = 4
    /\ cards[1] = IF decimals = 1 THEN formatBytes(Value(pa.ramSize))
                  ELSE formatBytesInPage(Value(pa.ramSize))
    /\ cards[2] = toLocaleString(Value(pa.totalPageCount))
    /\ cards[3] = toLocaleString(Value(pa.freePageCount))
    /\ cards[4] = usedPercent(pa) \o <<"%">>

\* C21: every publish after the first sets the four counters shown to the
\* values of the snapshot published, also when no page kind changed
C21_CountersSetByEveryPublish ==
    [][/\ PublishedByMessage => ShowsCounters(dom'.cards, Head(mailbox), 2)
       /\ PublishedByReload => ShowsCounters(dom'.cards, currentMemoryState, 1)]_vars

\* a message changed no cell, and the counters shown are those of another
\* guest state than the one the page was first written from
C21_CountersChangedAlone ==
    /\ shown.by = "message" /\ shown.changed = {} /\ Len(dom.cells) = MaxPages
    /\ dom.info[1] = toHexString(SmallSnapshot.ramStart)
    /\ dom.cards[2] = toLocaleString(Value(OtherSnapshot.totalPageCount))
    /\ dom.cards[3] = toLocaleString(Value(OtherSnapshot.freePageCount))

\* C22: after any sequence of publishes the page shows, for every page
\* index, the kind and the colour, and in its four cards the counters, that
\* a full render of the snapshot published last would show
C22_PatchedEqualsFullRender ==
    (memoryPanel /\ html = "viewer" /\ shown.prev # NoState) =>
        LET full == getMemoryWebviewContent(shown.prev) IN
        /\ Len(dom.cells) = Len(full.cells)
        /\ \A i \in 1..Len(full.cells) :
              /\ dom.cells[i].type = full.cells[i].type
              /\ dom.cells[i].backgroundColor = full.cells[i].backgroundColor
        /\ dom.cards = full.cards

\* C24: after every publish the baseline of the next diff, the cells of the
\* page with their data-type, is the snapshot just published: as many cells
\* as it has pages, each with the kind of its page
C24_BaselineIsLastPublished ==
    (memoryPanel /\ html = "viewer" /\ shown.prev # NoState) =>
        /\ Len(dom.cells) = SampleLength(shown.prev)
        /\ \A i \in 1..Len(dom.cells) :
              i <= SampleLength(shown.prev) =>
                 dom.cells[i].type = String(Kinds(shown.prev)[i])

\* a requestMemoryData invocation ran in this step and went on to its read:
\* it ended in the step with an outcome, or it is suspended in a slot
ReadAttempted ==
    \/ event'.tick \notin {"none", "NoSession"}
    \/ \E i \in Slots : inv[i].pc = "idle" /\ inv'[i].pc # "idle"

\* C25: Stopped is not terminal: whenever a debug session starts while the
\* controller is Stopped with its panel open, the controller is Live again
\* and has made a read, however many sessions came before
C25_SessionStartResumes ==
    [][(~cosmosSession /\ cosmosSession' /\ memoryPanel /\ ~isLive) =>
          (isLive' /\ pollTimer' \in timers' /\ ReadAttempted)]_vars

\* C27: the live flag and the poll timer agree in every reachable state:
\* isLive holds exactly when a repeating timer is scheduled, and no timer is
\* left to fire while the controller is Stopped
C27_LiveIffTimerScheduled ==
    /\ isLive <=> (pollTimer # 0 /\ pollTimer \in timers)
    /\ ~isLive => timers = {}

\* the outcomes of a tick that failed at address resolution, at the
\* connection, at the read or at decoding
FailedOutcomes ==
    TickFailures \cup {"BadMagic", "ResolutionError", "NoKernelPath", "NotReady"}

\* C26: a tick that fails at any stage leaves the stored snapshot and the
\* content of the view as they were; the panel is the same before and after
C26_FailedTickKeepsView ==
    [][(event'.tick \in FailedOutcomes /\ memoryPanel' = memoryPanel) =>
          (currentMemoryState' = currentMemoryState /\ html' = html)]_vars

\* a tick failed while the panel shows a snapshot
C26_FailedWithSnapshotShown ==
    /\ event.tick \in {"CommandTimeout", "RangeError", "BadMagic", "SocketError"}
    /\ memoryPanel /\ html = "viewer" /\ currentMemoryState # NoState

\* the controller is Stopped: not live and no timer scheduled
Stopped == ~isLive /\ timers = {}

\* C29: while the controller is Stopped nothing is stored or published: a
\* read in flight when it stopped never replaces currentMemoryState or the
\* view, and after closeMemoryPanel currentMemoryState stays null
C29_NothingStoredWhileStopped ==
    [][(Stopped /\ Stopped') =>
          /\ event'.tick # "Ok"
          /\ currentMemoryState' \in {currentMemoryState, NoState}
          /\ html' \in {html, "none"}]_vars

\* the sockets that were opened and that nobody has closed
OpenSockets == {sk \in DOMAIN socks : socks[sk].status = "open"}
\* ensureQmpConnection made a new client while the controller held one
ClientReplaced ==
    /\ qmpClient # 0
    /\ qmpClient' # 0
    /\ \E i \in 1..MaxInv : inv[i].pc # "wait500" /\ inv'[i].pc = "wait500"

\* C28: at most one monitor-channel socket is open at any time; the client is
\* never replaced by a new one while its socket is open (its handshake running
\* or done); when the debug session has ended no opened socket is left open.
C28_OneSocketOwned ==
    [][/\ Cardinality(OpenSockets') <= 1
       /\ ClientReplaced =>
             (clients[qmpClient].socket = 0
                 \/ socks[clients[qmpClient].socket].status # "open")
       /\ (cosmosSession /\ ~cosmosSession') => OpenSockets' = {}]_vars

\* command id of client c is in the request table
Pending(c, id) == id \in clients[c].pendingRequests

\* C30: a command leaves the request table in a step of exactly one of its
\* response and its timeout; the invocation awaiting it is resumed in that
\* step and in no other; a command that has left the table never returns to
\* it; every command in the table eventually leaves it, so the table of a
\* disconnected client becomes empty.
C30_EachCommandCompletedOnce ==
    /\ [][\A c \in Clients : \A id \in 1..MaxId :
            /\ (Pending(c, id) /\ ~Pending(c, id)') =>
                  ((event'.rx = <<c, id>>) # (event'.timeout = <<c, id>>))
            /\ \A i \in Slots :
                  (inv[i].pc = "reading" /\ inv[i].cl = c /\ inv[i].id = id) =>
                      ((inv'[i] # inv[i]) <=> (Pending(c, id) /\ ~Pending(c, id)'))
            /\ (~Pending(c, id) /\ id \in clients[c].written
                    /\ id \in clients'[c].written) => ~Pending(c, id)']_vars
    /\ \A c \in Clients : \A id \in 1..MaxId : Pending(c, id) ~> ~Pending(c, id)
    /\ \A c \in Clients :
          (clients[c].socket = 0 /\ clients[c].pendingRequests # {})
              ~> (clients[c].pendingRequests = {})

\* C30 witness: the timeout of a command fired on a client that disconnect()
\* had detached from its socket, and left the request table of it empty.
C30_TimedOutAfterDisconnect ==
    \E c \in Clients :
        /\ event.timeout[1] = c
        /\ clients[c].used
        /\ clients[c].socket = 0
        /\ clients[c].written # {}
        /\ clients[c].pendingRequests = {}

\* a snapshot was published in this step by the read with this id of client c
PublishedRead(c, id) ==
    /\ event'.tick = "Ok"
    /\ event'.rx = <<c, id>>
    /\ \E i \in Slots : inv[i].pc = "reading" /\ inv[i].cl = c /\ inv[i].id = id

\* C23: snapshots are published in the order in which their reads were issued:
\* no read publishes after a read issued later than it has published.
C23_PublishedInIssueOrder ==
    [][\A c \in Clients : \A id \in 1..MaxId :
          PublishedRead(c, id) => id \notin clients[c].overtaken]_vars
====
